---- MODULE Spec2Model ----
(***************************************************************************)
(* FisheyeTextScene (src/app/components/FisheyeTextScene.tsx): the scene's *)
(* lifecycle (effect setup, render ticks, resize handler, effect cleanup)  *)
(* as a state machine over the host's frame-callback list, its resize      *)
(* listener, the GPU objects and the two canvases (Spec); the placement of *)
(* the text lines by drawOffscreen, frame after frame (SpecLayout); and    *)
(* wrapText on every short text (SpecWrap).                                *)
(*                                                                         *)
(* Units: time in milliseconds, lengths on the scroll axis in 1/1000 of a  *)
(* pixel, so that speed (px/s) * dt (ms) is an exact integer.              *)
(***************************************************************************)
EXTENDS Integers, Sequences, FiniteSets

VARIABLES
  phase,      \* "mounted" | "active" | "inert" | "failed" | "tornDown"
  fault,      \* what the host refuses during setup ("none": nothing)
  thrown,     \* the error setup raised synchronously to its caller, or "none"
  tickError,  \* TRUE once a frame callback has thrown
  glError,    \* the error flag of the GL context, which no scene code reads
  gpu,        \* the GPU objects that exist (created and not deleted)
  pending,    \* ids of the frame callbacks the host still holds
  raf,        \* let raf
  nextId,     \* the id the host hands out at the next requestAnimationFrame
  listener,   \* TRUE while onResize is registered on window
  win,        \* window: innerWidth, innerHeight, devicePixelRatio * 2
  canvas,     \* the visible canvas: width, height, bitmap
  off,        \* the offscreen canvas: width, height, bitmap
  viewport,   \* gl.viewport width, height
  uRes,       \* uniform uResolution
  texSize,    \* size of the image last uploaded to tex
  clock,      \* host time (ms)
  start,      \* let start
  scroll,     \* let scroll (1/1000 px)
  speed,      \* prop speed (px/s)
  frames,     \* number of frame callbacks the host has run
  lastOp,     \* the scene code that ran last
  nLines,     \* lines.length, the number of lines wrapText returned
  text,       \* wrapText's argument t, a sequence of characters
  maxWidth,   \* wrapText's argument maxWidth
  lines,      \* what wrapText returned
  wrapped,    \* TRUE once wrapText has returned
  pixel,      \* a fragment: vUv - 0.5, in 1/10 of the quad's side
  uK,         \* uniform uK, in 1/100
  uKcube,     \* uniform uKcube, in 1/100
  texel,      \* what texture2D returns at the distorted coordinate (r, g, b, a)
  smoothImpl, \* how the GLSL implementation evaluates smoothstep(0.9, 0.2, x)
  fragColor   \* gl_FragColor, each channel * VDen; <<>> before main has run

sceneVars == <<phase, fault, thrown, tickError, glError, gpu, pending, raf, nextId,
               listener, win, canvas, off, viewport, uRes, texSize, clock,
               start, scroll, speed, frames, lastOp>>

layoutVars == <<nLines>>

wrapVars == <<text, maxWidth, lines, wrapped>>

shaderVars == <<pixel, uK, uKcube, texel, smoothImpl, fragColor>>

vars == <<sceneVars, layoutVars, wrapVars, shaderVars>>

----------------------------------------------------------------------------
(* Bounds and input sets *)

MaxTicks == 3
MaxLines == 4

RawIntervals == {16, 50, 51, 200}
\* The timestamp the host hands to a frame callback is the time its frame
\* began; for the first callback that can lie before the performance.now()
\* that setup read.
FirstTickSkews == {-4}
Speeds == {20, 54}
Widths == {375, 801}
Heights == {600, 701}
Dprs2 == {2, 3, 6}          \* devicePixelRatio 1, 1.5, 3
Faults == {"none", "noWebGL", "no2D", "vsCreate", "vsCompile", "fsCreate",
           "fsCompile", "programCreate", "link", "upload", "draw"}

\* texImage2D or drawArrays fails in a frame: the call returns, the context
\* records the error
GlFaults == {"upload", "draw"}

Windows == [innerWidth : Widths, innerHeight : Heights, dpr2 : Dprs2]

Min(a, b) == IF a <= b THEN a ELSE b
Max(a, b) == IF a >= b THEN a ELSE b

----------------------------------------------------------------------------
(* The host's canvas: assigning width or height resets the bitmap, also    *)
(* when the value assigned is the one the canvas already has.              *)

SetWidth(c, w) == [c EXCEPT !.width = w, !.bitmap = "blank"]
SetHeight(c, h) == [c EXCEPT !.height = h, !.bitmap = "blank"]

NewCanvas == [width |-> 300, height |-> 150, bitmap |-> "blank"]

----------------------------------------------------------------------------
(* createShader / createProgram: the GPU objects left alive and the error  *)
(* thrown, by what the host refuses.                                       *)

CreateShaderThrows(f, which) ==
  IF f = which \o "Create" THEN "Failed to create shader"
  ELSE IF f = which \o "Compile" THEN "Shader compile failed"
  ELSE "none"

\* createShader deletes the shader it could not compile
CreateShaderLeaves(f, which) ==
  IF CreateShaderThrows(f, which) = "none" THEN {which} ELSE {}

CreateProgramThrows(f) ==
  IF CreateShaderThrows(f, "vs") # "none" THEN CreateShaderThrows(f, "vs")
  ELSE IF CreateShaderThrows(f, "fs") # "none" THEN CreateShaderThrows(f, "fs")
  ELSE IF f = "programCreate" THEN "Failed to create program"
  ELSE IF f = "link" THEN "Program link failed"
  ELSE "none"

CreateProgramLeaves(f) ==
  IF CreateShaderThrows(f, "vs") # "none" THEN CreateShaderLeaves(f, "vs")
  ELSE IF CreateShaderThrows(f, "fs") # "none"
    THEN {"vs"} \cup CreateShaderLeaves(f, "fs")
  ELSE IF f = "programCreate" THEN {"vs", "fs"}
  ELSE IF f = "link" THEN {"vs", "fs"}       \* deleteProgram(program) only
  ELSE {"vs", "fs", "program"}

----------------------------------------------------------------------------
(* cancelAnimationFrame(id) on the host's list of pending callbacks *)

LeaveScheduled(p, id) == p

CancelAnimationFrame(p, id) == p \ {id}

----------------------------------------------------------------------------
(* resize() *)

\* the ratio taken as it is, without the cap at 2
UnclampedDpr2(w) == IF w.dpr2 = 0 THEN 2 ELSE w.dpr2

ClampedDpr2(w) == Min(IF w.dpr2 = 0 THEN 2 ELSE w.dpr2, 4)
TargetW(w) == (w.innerWidth * ClampedDpr2(w)) \div 2
TargetH(w) == (w.innerHeight * ClampedDpr2(w)) \div 2

\* the guard with "and" for "or": a change of one dimension alone is missed
ResizeCanvasBothDiffer(c, w) ==
  IF c.width # TargetW(w) /\ c.height # TargetH(w)
  THEN SetHeight(SetWidth(c, TargetW(w)), TargetH(w))
  ELSE c

ResizeCanvas(c, w) ==
  IF c.width # TargetW(w) \/ c.height # TargetH(w)
  THEN SetHeight(SetWidth(c, TargetW(w)), TargetH(w))
  ELSE c

ResizeOff(o, w) == SetHeight(SetWidth(o, TargetW(w)), TargetH(w))

resize(w) ==
  /\ canvas' = ResizeCanvas(canvas, w)
  /\ viewport' = <<canvas'.width, canvas'.height>>
  /\ uRes' = <<canvas'.width, canvas'.height>>
  /\ off' = ResizeOff(off, w)

----------------------------------------------------------------------------
(* render(now) and drawOffscreen(dt) *)

DtClamp == 50     \* Math.min(0.05, ...) seconds

UnclampedDt(now, st) == now - st

EffectiveDt(now, st) == Min(DtClamp, now - st)

ScrollAfter(sc, sp, dt) == sc + sp * dt

----------------------------------------------------------------------------
(* drawOffscreen: vertical placement of the lines.  h is off.height in px; *)
(* every y below is in 1/1000 px.  An opacity a is kept as a * fade, an    *)
(* integer between 0 and fade.                                             *)

MobileBreakpoint == 768
MinFontPx == 16

IsMobile(w) == w.innerWidth < MobileBreakpoint

\* Math.max(16, Math.floor(isMobile ? h * 0.04 : h * 0.05))
FontPx(h, mobile) ==
  Max(MinFontPx, IF mobile THEN (h * 4) \div 100 ELSE (h * 5) \div 100)

\* Math.floor(fontPx * 1.25), in px
LineHeightPx(h, mobile) == (FontPx(h, mobile) * 5) \div 4

LineHeight(h, mobile) == LineHeightPx(h, mobile) * 1000

\* lines.length * lineHeight + h * 0.2
BlockHeight(h, mobile, n) == n * LineHeight(h, mobile) + h * 200

\* h * 0.10
BottomMargin(h) == h * 100

\* the % of the language: the sign of the result is the sign of a
JsMod(a, b) == IF a >= 0 THEN a % b ELSE -((-a) % b)

\* the offset used as it is, without the wrap at blockHeight
BaseYNoWrap(s, h, mobile, n) == h * 1000 - BottomMargin(h) - s

BaseY(s, h, mobile, n) ==
  h * 1000 - BottomMargin(h) - JsMod(s, BlockHeight(h, mobile, n))

\* the fade at the top edge alone
edgeAlphaTopOnly(y, h, fade) == Max(0, Min(fade, y))

\* edgeAlpha(y, h, fade) * fade
edgeAlpha(y, h, fade) == Max(0, Min(Min(fade, y), Min(fade, h - y)))

Fade(h, mobile) == 2 * LineHeight(h, mobile)

Passes == {-1, 0}

LineY(s, h, mobile, n, pass, i) ==
  BaseY(s, h, mobile, n) + pass * BlockHeight(h, mobile, n)
    + i * LineHeight(h, mobile)

\* the (line, y, alpha) of every fillText of one frame
DrawnLines(s, h, mobile, n) ==
  { <<c[2], LineY(s, h, mobile, n, c[1], c[2]),
      edgeAlpha(LineY(s, h, mobile, n, c[1], c[2]), h * 1000, Fade(h, mobile))>> :
    c \in { pi \in Passes \X (0 .. n - 1) :
            edgeAlpha(LineY(s, h, mobile, n, pi[1], pi[2]), h * 1000,
                      Fade(h, mobile)) > 0 } }

\* what the last frame drew, in a state where the viewport has not changed since
Drawn == DrawnLines(scroll, off.height, IsMobile(win), nLines)

----------------------------------------------------------------------------
(* wrapText.  A string is a sequence of characters; " " stands for every   *)
(* character of the class \s.                                              *)

Chars == {"a", "b", " "}

IsSpace(c) == c = " "

\* ctx.measureText(str).width, with a wide and a narrow letter
CharWidth(c) == IF c = "b" THEN 2 ELSE 1

RECURSIVE MeasureText(_)
MeasureText(str) ==
  IF str = <<>> THEN 0 ELSE CharWidth(Head(str)) + MeasureText(Tail(str))

\* t.split(/\s+/): a run of whitespace separates two pieces, and a piece is
\* empty where the text starts or ends with whitespace
RECURSIVE SplitFrom(_, _, _, _)
SplitFrom(t, i, cur, acc) ==
  IF i > Len(t) THEN Append(acc, cur)
  ELSE IF IsSpace(t[i])
    THEN IF i > 1 /\ IsSpace(t[i - 1])
         THEN SplitFrom(t, i + 1, cur, acc)
         ELSE SplitFrom(t, i + 1, <<>>, Append(acc, cur))
  ELSE SplitFrom(t, i + 1, Append(cur, t[i]), acc)

Split(t) == SplitFrom(t, 1, <<>>, <<>>)

\* the flush that forgets the word that did not fit
RECURSIVE WrapFromDropping(_, _, _, _, _)
WrapFromDropping(words, i, line, acc, mw) ==
  IF i > Len(words) THEN (IF line # <<>> THEN Append(acc, line) ELSE acc)
  ELSE LET test == IF line # <<>> THEN line \o <<" ">> \o words[i] ELSE words[i]
       IN IF MeasureText(test) > mw /\ line # <<>>
          THEN WrapFromDropping(words, i + 1, <<>>, Append(acc, line), mw)
          ELSE WrapFromDropping(words, i + 1, test, acc, mw)

\* the loop of wrapText from word i on, and the final push
RECURSIVE WrapFrom(_, _, _, _, _)
WrapFrom(words, i, line, acc, mw) ==
  IF i > Len(words) THEN (IF line # <<>> THEN Append(acc, line) ELSE acc)
  ELSE LET test == IF line # <<>> THEN line \o <<" ">> \o words[i] ELSE words[i]
       IN IF MeasureText(test) > mw /\ line # <<>>
          THEN WrapFrom(words, i + 1, words[i], Append(acc, line), mw)
          ELSE WrapFrom(words, i + 1, test, acc, mw)

\* every word flushed to a line of its own, whether it would have fitted or not
RECURSIVE WrapFromOnePerLine(_, _, _, _, _)
WrapFromOnePerLine(words, i, line, acc, mw) ==
  IF i > Len(words) THEN (IF line # <<>> THEN Append(acc, line) ELSE acc)
  ELSE IF line # <<>>
       THEN WrapFromOnePerLine(words, i + 1, words[i], Append(acc, line), mw)
       ELSE WrapFromOnePerLine(words, i + 1, words[i], acc, mw)

wrapTextOnePerLine(t, mw) == WrapFromOnePerLine(Split(t), 1, <<>>, <<>>, mw)

wrapTextDropping(t, mw) == WrapFromDropping(Split(t), 1, <<>>, <<>>, mw)

wrapText(t, mw) == WrapFrom(Split(t), 1, <<>>, <<>>, mw)

----------------------------------------------------------------------------
(* The fragment shader FS.  A fragment is its centred coordinate c =        *)
(* vUv - 0.5 = pixel / GridN; only fragments whose distance from the       *)
(* centre is a whole number of grid steps are taken, so that sqrt(r2) is    *)
(* exact.  uK and uKcube are in 1/100, r2 in 1/100.                         *)

GridN == 10

RECURSIVE ISqrtFrom(_, _)
ISqrtFrom(n, r) == IF (r + 1) * (r + 1) > n THEN r ELSE ISqrtFrom(n, r + 1)

\* sqrt(r2) * GridN, for a fragment with an exact radius
Radius(px) == ISqrtFrom(px[1] * px[1] + px[2] * px[2], 0)

HasExactRadius(px) ==
  Radius(px) * Radius(px) = px[1] * px[1] + px[2] * px[2]

\* dot(centered, centered), in 1/100
R2(px) == px[1] * px[1] + px[2] * px[2]

\* f = 1.0 + r2 * (uK + uKcube * sqrt(r2)), as FNum / FDen
FDen == 100000

FNum(px, k, kc) == FDen + R2(px) * (k * GridN + kc * Radius(px))

\* distorted = f * centered + 0.5, each component as a numerator over
\* 2 * FDen * GridN
DistortedDen == 2 * FDen * GridN

Distorted(px, k, kc) ==
  << 2 * FNum(px, k, kc) * px[1] + FDen * GridN,
     2 * FNum(px, k, kc) * px[2] + FDen * GridN >>

\* the test on x alone
OutOfBoundsXOnly(d) == d[1] < 0 \/ d[1] > DistortedDen

\* distorted.x < 0.0 || distorted.x > 1.0 || distorted.y < 0.0 || distorted.y > 1.0
OutOfBounds(d) ==
  d[1] < 0 \/ d[1] > DistortedDen \/ d[2] < 0 \/ d[2] > DistortedDen

\* smoothstep(0.9, 0.2, x): edge0 > edge1, for which the shading language
\* leaves the result undefined.  An implementation may clamp
\* (x - edge0) / (edge1 - edge0) and interpolate, or first return 0.0 for
\* x <= edge0, or first return 1.0 for x >= edge1.
SmoothImpls == {"clamp", "edge0First", "edge1First"}

VignetteEdge0 == 90
VignetteEdge1 == 20

Span == VignetteEdge0 - VignetteEdge1

\* t * Span, t the interpolation parameter in 0 .. 1, for x in 1/100
SmoothT(x, impl) ==
  IF impl = "edge0First" /\ x <= VignetteEdge0 THEN 0
  ELSE IF impl = "edge0First" THEN Span
  ELSE IF impl = "edge1First" /\ x >= VignetteEdge1 THEN Span
  ELSE IF impl = "edge1First" THEN 0
  ELSE Max(0, Min(Span, VignetteEdge0 - x))

\* mix(0.85, 1.0, t * t * (3 - 2 t)) as VignetteNum / VDen
VDen == 20 * Span * Span * Span

VignetteNum(x, impl) ==
  17 * Span * Span * Span
    + 3 * SmoothT(x, impl) * SmoothT(x, impl) * (3 * Span - 2 * SmoothT(x, impl))

\* vec4(0.0, 0.0, 0.0, 1.0), channels in 0 .. 255 times VDen
OpaqueBlack == <<0, 0, 0, 255 * VDen>>

\* main()
FragmentMain(px, k, kc, tx, impl) ==
  IF OutOfBounds(Distorted(px, k, kc))
  THEN OpaqueBlack
  ELSE << tx[1] * VignetteNum(R2(px), impl),
          tx[2] * VignetteNum(R2(px), impl),
          tx[3] * VignetteNum(R2(px), impl),
          tx[4] * VDen >>

ShaderIdle ==
  /\ pixel = <<0, 0>>
  /\ uK = 0
  /\ uKcube = 0
  /\ texel = <<0, 0, 0, 0>>
  /\ smoothImpl = "clamp"
  /\ fragColor = <<>>

----------------------------------------------------------------------------

Init ==
  /\ phase = "mounted"
  /\ fault \in Faults
  /\ thrown = "none"
  /\ tickError = FALSE
  /\ glError = "none"
  /\ gpu = {}
  /\ pending = {}
  /\ raf = 0
  /\ nextId = 1
  /\ listener = FALSE
  /\ win \in Windows
  /\ canvas = NewCanvas
  /\ off = NewCanvas
  /\ viewport = <<0, 0>>
  /\ uRes = <<0, 0>>
  /\ texSize = <<0, 0>>
  /\ clock = 0
  /\ start = 0
  /\ scroll = 0
  /\ speed \in Speeds
  /\ frames = 0
  /\ lastOp = "none"
  /\ nLines = MaxLines
  /\ text = <<>>
  /\ maxWidth = 0
  /\ lines = <<>>
  /\ wrapped = FALSE
  /\ ShaderIdle

(* The effect body, from getContext to the return of the cleanup function. *)
Setup ==
  /\ phase = "mounted"
  /\ lastOp' = "setup"
  /\ UNCHANGED <<fault, tickError, glError, win, texSize, clock, scroll, speed,
                 frames>>
  /\ IF fault = "noWebGL"
     THEN /\ phase' = "inert"                      \* if (!gl) return;
          /\ UNCHANGED <<thrown, gpu, pending, raf, nextId, listener, canvas,
                         off, viewport, uRes, start>>
     ELSE IF CreateProgramThrows(fault) # "none"
     THEN /\ phase' = "failed"
          /\ thrown' = CreateProgramThrows(fault)
          /\ gpu' = CreateProgramLeaves(fault)
          /\ UNCHANGED <<pending, raf, nextId, listener, canvas, off,
                         viewport, uRes, start>>
     ELSE /\ phase' = "active"
          /\ thrown' = "none"
          /\ gpu' = CreateProgramLeaves(fault) \cup {"vbo", "tex"}
          /\ start' = clock
          /\ resize(win)
          /\ raf' = nextId
          /\ pending' = pending \cup {nextId}
          /\ nextId' = nextId + 1
          /\ listener' = TRUE

\* gl.texImage2D(..., off): the texture takes the image, unless the upload
\* fails; then it keeps what it had
TexImage2D(ts, o, f) == IF f = "upload" THEN ts ELSE <<o.width, o.height>>

\* gl.clear, gl.drawArrays: the canvas shows the frame, unless the draw
\* fails; then it shows the clear colour
DrawArrays(c, f) ==
  [c EXCEPT !.bitmap = IF f = "draw" THEN "cleared" ELSE "drawn"]

(* The host runs a pending frame callback: render(now). *)
Tick(id, d) ==
  /\ id \in pending
  /\ frames < MaxTicks
  /\ d \in FirstTickSkews => frames = 0
  /\ clock' = clock + d
  /\ frames' = frames + 1
  /\ lastOp' = "render"
  /\ start' = clock'
  /\ UNCHANGED <<phase, fault, thrown, gpu, listener, win, viewport, uRes, speed>>
  /\ IF fault = "no2D"
     THEN \* offCtx is null: ctx.clearRect throws inside drawOffscreen
          /\ tickError' = TRUE
          /\ pending' = pending \ {id}
          /\ UNCHANGED <<raf, nextId, canvas, off, texSize, scroll, glError>>
     ELSE /\ scroll' = ScrollAfter(scroll, speed, EffectiveDt(clock', start))
          /\ off' = [off EXCEPT !.bitmap = "drawn"]
          /\ texSize' = TexImage2D(texSize, off, fault)
          /\ canvas' = DrawArrays(canvas, fault)
          /\ glError' = IF fault \in GlFaults /\ glError = "none"
                        THEN fault ELSE glError
          /\ raf' = nextId
          /\ pending' = (pending \ {id}) \cup {nextId}
          /\ nextId' = nextId + 1
          /\ UNCHANGED tickError

(* The host changes the window and dispatches "resize" to the listeners. *)
\* a handler that also takes the text back to its first position
ResizeEventRestarting(w) ==
  /\ win' = w
  /\ scroll' = 0
  /\ UNCHANGED <<phase, fault, thrown, tickError, glError, gpu, pending, raf,
                 nextId, listener, texSize, clock, start, speed, frames>>
  /\ IF listener
     THEN /\ resize(w)
          /\ lastOp' = "onResize"
     ELSE UNCHANGED <<canvas, off, viewport, uRes, lastOp>>

ResizeEvent(w) ==
  /\ win' = w
  /\ UNCHANGED <<phase, fault, thrown, tickError, glError, gpu, pending, raf,
                 nextId, listener, texSize, clock, start, scroll, speed,
                 frames>>
  /\ IF listener
     THEN /\ resize(w)
          /\ lastOp' = "onResize"
     ELSE UNCHANGED <<canvas, off, viewport, uRes, lastOp>>

(* The function the effect returned. *)
Teardown ==
  /\ phase = "active"
  /\ phase' = "tornDown"
  /\ lastOp' = "cleanup"
  /\ pending' = CancelAnimationFrame(pending, raf)
  /\ listener' = FALSE                            \* removeEventListener
  /\ gpu' = gpu \ {"tex", "vbo"}                  \* deleteTexture, deleteBuffer
  /\ UNCHANGED <<fault, thrown, tickError, glError, raf, nextId, win, canvas,
                 off, viewport, uRes, texSize, clock, start, scroll, speed,
                 frames>>

Next ==
  \/ Setup /\ UNCHANGED <<layoutVars, wrapVars, shaderVars>>
  \/ \E id \in pending, d \in RawIntervals \cup FirstTickSkews :
       Tick(id, d) /\ UNCHANGED <<layoutVars, wrapVars, shaderVars>>
  \/ \E w \in Windows : ResizeEvent(w) /\ UNCHANGED <<layoutVars, wrapVars, shaderVars>>
  \/ Teardown /\ UNCHANGED <<layoutVars, wrapVars, shaderVars>>

Spec == Init /\ [][Next]_vars

----------------------------------------------------------------------------
(* drawOffscreen(dt), frame after frame, in an active scene whose window   *)
(* stays as it is.                                                         *)

MaxScroll == 120000

LayoutHeights == {100, 400}
LayoutDts == {16, 50}

LayoutInit ==
  /\ phase = "active"
  /\ fault = "none"
  /\ thrown = "none"
  /\ tickError = FALSE
  /\ glError = "none"
  /\ gpu = {"vs", "fs", "program", "vbo", "tex"}
  /\ pending = {1}
  /\ raf = 1
  /\ nextId = 2
  /\ listener = TRUE
  /\ win \in [innerWidth : Widths, innerHeight : LayoutHeights, dpr2 : {2}]
  /\ canvas = ResizeCanvas(NewCanvas, win)
  /\ off = ResizeOff(NewCanvas, win)
  /\ viewport = <<canvas.width, canvas.height>>
  /\ uRes = <<canvas.width, canvas.height>>
  /\ texSize = <<0, 0>>
  /\ clock = 0
  /\ start = 0
  /\ scroll = 0
  /\ speed \in Speeds
  /\ frames = 0
  /\ lastOp = "setup"
  /\ nLines \in 0 .. MaxLines
  /\ text = <<>>
  /\ maxWidth = 0
  /\ lines = <<>>
  /\ wrapped = FALSE
  /\ ShaderIdle

drawOffscreen(dt) ==
  /\ phase = "active"
  /\ scroll <= MaxScroll
  /\ scroll' = ScrollAfter(scroll, speed, dt)
  /\ off' = [off EXCEPT !.bitmap = "drawn"]
  /\ UNCHANGED <<phase, fault, thrown, tickError, glError, gpu, pending, raf,
                 nextId, listener, win, canvas, viewport, uRes, texSize, clock,
                 start, speed, frames, lastOp, layoutVars, wrapVars,
                 shaderVars>>

LayoutNext == \E dt \in LayoutDts : drawOffscreen(dt)

SpecLayout == LayoutInit /\ [][LayoutNext]_vars

----------------------------------------------------------------------------
(* Claims about the lifecycle, checked under Spec                          *)

Dims(c) == <<c.width, c.height>>
Target(w) == <<TargetW(w), TargetH(w)>>

\* C1: when teardown has returned, the program, the vertex buffer and the
\* texture have all been deleted.
C1_AllReleased ==
  phase = "tornDown" => gpu \cap {"program", "vbo", "tex"} = {}

\* C2: after teardown the scene is inert: the host holds no frame callback of
\* the scene, the resize listener is gone, and no scene code has run since
\* the cleanup, whenever between callbacks teardown was called.
C2_InertAfterTeardown ==
  phase = "tornDown" => pending = {} /\ ~listener /\ lastOp = "cleanup"

\* teardown right after a tick rescheduled itself, then a resize of the
\* window that the scene no longer follows
C2_Witness ==
  /\ phase = "tornDown"
  /\ frames >= 1
  /\ raf = nextId - 1
  /\ Dims(canvas) # Target(win)

C4_ResizeIdempotent ==
  [][ (listener /\ lastOp' = "onResize" /\ win' = win)
      => off' = off /\ canvas' = canvas /\ viewport' = viewport
         /\ uRes' = uRes ]_vars

ConstructionFaults == {"noWebGL", "no2D", "vsCompile", "fsCompile", "link"}

\* C5: every construction failure is raised synchronously by setup.
C5_FailuresRaised ==
  (phase # "mounted" /\ fault \in ConstructionFaults)
    => thrown # "none" /\ phase = "failed"

\* C6: after a construction that failed (setup threw) no frame callback is
\* pending, no resize listener is registered and no GPU object created by
\* the attempt is left.
C6_NoPartialScene ==
  phase = "failed" => pending = {} /\ ~listener /\ gpu = {}

\* C7: a tick that reaches drawOffscreen advances the offset by exactly
\* speed * min(raw interval, 0.05 s), the raw interval being the host time
\* since the previous tick (since setup, for the first tick).
C7_DtClamp ==
  [][ (frames' = frames + 1 /\ ~tickError')
      => scroll' - scroll = speed * Min(clock' - clock, 50) ]_vars

\* C12: the offset after a tick is never smaller than the offset before it.
C12_Monotone == [][scroll' >= scroll]_vars

\* C13: once a texture upload or a draw call has failed in a tick, no
\* further frame callback is scheduled or run.
C13_FailureFatal ==
  [][glError # "none" => frames' = frames /\ pending' \subseteq pending]_vars

\* speed 54: a tick after 16 ms (0.864 px) and a tick after 200 ms (2.7 px)
C7_Witness ==
  /\ speed = 54
  /\ frames = 2
  /\ clock = 216
  /\ scroll = 864 + 2700

----------------------------------------------------------------------------
(* Claims about the placement of the lines, checked under SpecLayout       *)

\* the lines of the endless repetition of the block (period blockHeight)
\* whose opacity in the viewport is positive
EndlessLines(s, h, mobile, n) ==
  LET B == BlockHeight(h, mobile, n)
      lo == ((s - h * 1000 - n * LineHeight(h, mobile)) \div B) - 1
      hi == ((s + h * 1000) \div B) + 1
      Y(k, i) == h * 1000 - BottomMargin(h) - s + k * B
                   + i * LineHeight(h, mobile)
  IN { <<c[2], Y(c[1], c[2]), edgeAlpha(Y(c[1], c[2]), h * 1000, Fade(h, mobile))>> :
       c \in { ki \in (lo .. hi) \X (0 .. n - 1) :
               edgeAlpha(Y(ki[1], ki[2]), h * 1000, Fade(h, mobile)) > 0 } }

\* C8: at every offset the two passes draw exactly the lines of the endless
\* repetition of the block that have positive opacity in the viewport.
C8_Seamless ==
  off.bitmap = "drawn"
    => Drawn = EndlessLines(scroll, off.height, IsMobile(win), nLines)

\* a set of drawn tuples with every y moved by d
Shifted(D, d) == { <<t[1], t[2] + d, t[3]>> : t \in D }

\* C9: for s >= 0 the tuples drawn at s + blockHeight are the tuples drawn
\* at s: placed in the scrolled text (y + offset) they are the same lines
\* with the same opacity, one blockHeight further.
C9_LoopPeriod ==
  LET B == BlockHeight(off.height, IsMobile(win), nLines)
      At(s) == DrawnLines(s, off.height, IsMobile(win), nLines)
  IN scroll >= 0
       => Shifted(At(scroll + B), scroll + B) = Shifted(Shifted(At(scroll), scroll), B)

\* an offset past the first wrap at which both passes have a visible line
C9_Witness ==
  /\ off.bitmap = "drawn"
  /\ nLines > 0
  /\ scroll > BlockHeight(off.height, IsMobile(win), nLines)
  /\ \E t \in Drawn : t[2] < BaseY(scroll, off.height, IsMobile(win), nLines)
  /\ \E t \in Drawn : t[2] >= BaseY(scroll, off.height, IsMobile(win), nLines)

----------------------------------------------------------------------------
(* wrapText applied to every short text and every small maxWidth *)

MaxTextLen == 6
MaxWidth == 5

Texts == UNION { [1 .. k -> Chars] : k \in 0 .. MaxTextLen }

WrapInit ==
  /\ phase = "mounted"
  /\ fault = "none"
  /\ thrown = "none"
  /\ tickError = FALSE
  /\ glError = "none"
  /\ gpu = {}
  /\ pending = {}
  /\ raf = 0
  /\ nextId = 1
  /\ listener = FALSE
  /\ win = [innerWidth |-> 801, innerHeight |-> 600, dpr2 |-> 2]
  /\ canvas = NewCanvas
  /\ off = NewCanvas
  /\ viewport = <<0, 0>>
  /\ uRes = <<0, 0>>
  /\ texSize = <<0, 0>>
  /\ clock = 0
  /\ start = 0
  /\ scroll = 0
  /\ speed = 20
  /\ frames = 0
  /\ lastOp = "none"
  /\ nLines = 0
  /\ text \in Texts
  /\ maxWidth \in 0 .. MaxWidth
  /\ lines = <<>>
  /\ wrapped = FALSE
  /\ ShaderIdle

WrapText ==
  /\ ~wrapped
  /\ lines' = wrapText(text, maxWidth)
  /\ nLines' = Len(lines')
  /\ wrapped' = TRUE
  /\ UNCHANGED <<sceneVars, text, maxWidth, shaderVars>>

WrapNext == WrapText

SpecWrap == WrapInit /\ [][WrapNext]_vars

----------------------------------------------------------------------------
(* Claims about wrapText, checked under SpecWrap                           *)

RECURSIVE Join(_)
Join(ls) ==
  IF ls = <<>> THEN <<>>
  ELSE IF Len(ls) = 1 THEN ls[1]
  ELSE ls[1] \o <<" ">> \o Join(Tail(ls))

NonEmpty(w) == w # <<>>

\* the whitespace-delimited words of a text
Words(t) == SelectSeq(Split(t), NonEmpty)

SingleWord(l) == l # <<>> /\ \A k \in 1 .. Len(l) : ~IsSpace(l[k])

\* C10: every line wrapText returns is no wider than maxWidth or is a single
\* word, and the lines joined with single spaces have the words of the text,
\* in order.
C10_WrapCorrect ==
  wrapped =>
    /\ \A k \in 1 .. Len(lines) :
         MeasureText(lines[k]) <= maxWidth \/ SingleWord(lines[k])
    /\ Words(Join(lines)) = Words(text)

\* a text with leading and trailing whitespace, wrapped on two lines: a word
\* wider than maxWidth, then a word that keeps the space in front of the
\* empty last piece
C10_Witness ==
  /\ wrapped
  /\ text = <<" ", "b", "b", " ", "a", " ">>
  /\ maxWidth = 3
  /\ lines = << <<"b", "b">>, <<"a", " ">> >>

\* "ab ba ab": three words of one width, as AB CD EF
ExampleText == <<"a", "b", " ", "b", "a", " ", "a", "b">>

ExampleLines == << <<"a", "b">>, <<"b", "a">>, <<"a", "b">> >>

----------------------------------------------------------------------------
(* Claims about the frame loop and resize, checked under Spec              *)

\* C16: while the scene is active exactly one frame callback is pending and
\* raf holds its id; a tick replaces the pending callback by one new one and
\* a resize schedules none.
C16_OnePending ==
  phase = "active" => pending = {raf}

\* C17: while the scene is active the offscreen surface, the canvas and the
\* GL viewport all have the size floor(window size * min(devicePixelRatio, 2))
\* of the last resize, and a texture a tick has uploaded has the size of the
\* viewport.
C17_SizesAgree ==
  phase = "active" =>
    LET size == << (win.innerWidth * Min(win.dpr2, 4)) \div 2,
                   (win.innerHeight * Min(win.dpr2, 4)) \div 2 >>
    IN /\ Dims(off) = size
       /\ Dims(canvas) = size
       /\ viewport = size
       /\ (lastOp = "render" /\ ~tickError /\ glError = "none")
            => texSize = viewport

\* a resize to a window of 375 px at ratio 1.5 has arrived after a tick: the
\* three sizes are the new one, the texture is still the one of the last tick
C17_Witness ==
  /\ phase = "active"
  /\ lastOp = "onResize"
  /\ frames >= 1
  /\ win.innerWidth = 375 /\ win.dpr2 = 3
  /\ Dims(off) = viewport /\ Dims(canvas) = viewport
  /\ viewport[1] = 562
  /\ texSize # viewport

\* C18: a resize leaves the scroll offset, the previous-tick timestamp and
\* the pending frame callback with its id as they were.
C18_ResizeKeepsScroll ==
  [][ (win' # win \/ (lastOp' = "onResize" /\ lastOp # "onResize"))
      => /\ scroll' = scroll
         /\ start' = start
         /\ raf' = raf
         /\ pending' = pending
         /\ frames' = frames ]_vars

\* a resize that changed the surfaces has run between two ticks, and the
\* offset and the timestamp are those the last tick left
C18_Witness ==
  /\ phase = "active"
  /\ lastOp = "onResize"
  /\ frames >= 1
  /\ scroll > 0
  /\ start = clock
  /\ pending = {raf}
  /\ texSize # viewport

----------------------------------------------------------------------------
(* The edge fade, checked under SpecLayout                                 *)

\* C19: for every line position y of a frame, edgeAlpha(y, H, fade) is
\* clamp(min(y / fade, (H - y) / fade), 0, 1), it lies in [0,1], and the line
\* is skipped exactly when it is <= 0, which is exactly when y <= 0 or y >= H.
C19_EdgeAlpha ==
  \A pass \in Passes, i \in 0 .. nLines - 1 :
    LET mobile == IsMobile(win)
        y == LineY(scroll, off.height, mobile, nLines, pass, i)
        H == off.height * 1000
        fade == Fade(off.height, mobile)
        a == edgeAlpha(y, H, fade)
        skipped == ~ \E d \in Drawn : d[1] = i /\ d[2] = y
    IN /\ fade > 0
       /\ a = Min(fade, Max(0, Min(y, H - y)))
       /\ a \in 0 .. fade
       /\ skipped <=> a <= 0
       /\ a <= 0 <=> (y <= 0 \/ y >= H)
       /\ skipped => ~ (y > 0 /\ y < H)

\* one frame with a line above the top edge, a line below the bottom edge, a
\* line inside a fade zone and a line at full opacity
C19_Witness ==
  /\ scroll > 0
  /\ \E d \in Drawn : d[3] > 0 /\ d[3] < Fade(off.height, IsMobile(win))
  /\ \E d \in Drawn : d[3] = Fade(off.height, IsMobile(win))
  /\ \E pass \in Passes, i \in 0 .. nLines - 1 :
       LineY(scroll, off.height, IsMobile(win), nLines, pass, i) <= 0
  /\ \E pass \in Passes, i \in 0 .. nLines - 1 :
       LineY(scroll, off.height, IsMobile(win), nLines, pass, i)
         >= off.height * 1000

----------------------------------------------------------------------------
(* The fragment shader run on one fragment *)

Ks == {-100, -28, 0, 200}
Kcubes == {0, 10}
Texels == { <<255, 255, 255, 255>>, <<185, 28, 28, 255>>, <<0, 0, 0, 0>>,
            <<255, 200, 180, 89>> }

Fragments ==
  { px \in ((0 - GridN \div 2) .. (GridN \div 2)) \X ((0 - GridN \div 2) .. (GridN \div 2)) :
      HasExactRadius(px) }

ShaderInit ==
  /\ phase = "active"
  /\ fault = "none"
  /\ thrown = "none"
  /\ tickError = FALSE
  /\ glError = "none"
  /\ gpu = {"vs", "fs", "program", "vbo", "tex"}
  /\ pending = {1}
  /\ raf = 1
  /\ nextId = 2
  /\ listener = TRUE
  /\ win = [innerWidth |-> 801, innerHeight |-> 600, dpr2 |-> 2]
  /\ canvas = ResizeCanvas(NewCanvas, win)
  /\ off = ResizeOff(NewCanvas, win)
  /\ viewport = <<canvas.width, canvas.height>>
  /\ uRes = <<canvas.width, canvas.height>>
  /\ texSize = <<0, 0>>
  /\ clock = 0
  /\ start = 0
  /\ scroll = 0
  /\ speed = 20
  /\ frames = 0
  /\ lastOp = "setup"
  /\ nLines = 0
  /\ text = <<>>
  /\ maxWidth = 0
  /\ lines = <<>>
  /\ wrapped = FALSE
  /\ pixel \in Fragments
  /\ uK \in Ks
  /\ uKcube \in Kcubes
  /\ texel \in Texels
  /\ smoothImpl \in SmoothImpls
  /\ fragColor = <<>>

Shade ==
  /\ fragColor = <<>>
  /\ fragColor' = FragmentMain(pixel, uK, uKcube, texel, smoothImpl)
  /\ UNCHANGED <<sceneVars, layoutVars, wrapVars, pixel, uK, uKcube, texel,
                 smoothImpl>>

ShaderNext == Shade

SpecShader == ShaderInit /\ [][ShaderNext]_vars

----------------------------------------------------------------------------
(* Claims about the fragment shader, checked under SpecShader              *)

MaxR2 == 100

\* C14: the brightness multiplier is exactly 1.0 for r2 <= 0.2, exactly 0.85
\* for r2 >= 0.9 and non-increasing in r2, whatever the implementation makes
\* of smoothstep(0.9, 0.2, r2).
C14_Vignette ==
  \A x \in 0 .. MaxR2 :
    /\ x <= VignetteEdge1 => VignetteNum(x, smoothImpl) = VDen
    /\ x >= VignetteEdge0 => 20 * VignetteNum(x, smoothImpl) = 17 * VDen
    /\ x < MaxR2 => VignetteNum(x + 1, smoothImpl) <= VignetteNum(x, smoothImpl)

\* C15: a fragment whose distorted coordinate has a component outside [0,1]
\* is exactly opaque black, whatever the texture holds; any other fragment
\* is the texture sample with its rgb scaled by the vignette factor and its
\* alpha as sampled.
C15_Cutoff ==
  fragColor # <<>> =>
    LET d == Distorted(pixel, uK, uKcube)
        outside == \E i \in 1 .. 2 : d[i] < 0 \/ d[i] > DistortedDen
    IN IF outside
       THEN fragColor = <<0, 0, 0, 255 * VDen>>
       ELSE /\ \A i \in 1 .. 3 :
                 fragColor[i] = texel[i] * VignetteNum(R2(pixel), smoothImpl)
            /\ fragColor[4] = texel[4] * VDen

\* a fragment pushed out of the texture in y alone, over a texel that is not
\* black
C15_Witness ==
  /\ fragColor = OpaqueBlack
  /\ pixel[1] = 0
  /\ OutOfBounds(Distorted(pixel, uK, uKcube))
  /\ texel = <<255, 255, 255, 255>>

====
